---------------------------- MODULE Spec2Model ----------------------------
(***************************************************************************)
(* A model of github_contribution.py: the GitRepository class, whose       *)
(* constructor derives the target directory and synthesizes the commit     *)
(* schedule, and whose setup() drives the filesystem and the external      *)
(* version-control tool.                                                   *)
(*                                                                         *)
(* Text is a sequence of one-character strings.  An optional text (an      *)
(* argparse value that may be None) is <<>> for None and <<s>> for s.      *)
(* A datetime is a record of its proleptic Gregorian ordinal and its       *)
(* clock fields; timedelta arithmetic carries minutes into hours and days. *)
(***************************************************************************)
EXTENDS Integers, Sequences, FiniteSets, TLC

VARIABLES
    args,          \* self.args: the parsed command line
    curr_date,     \* self.curr_date: datetime.now() at construction
    directory,     \* self.directory
    commit_dates,  \* self.commit_dates (the list being built, then the schedule)
    pc,            \* the control point of the run
    n,             \* the index of the next candidate day in _generate_commit_dates
    cand,          \* the last candidate day handled: its day, draw and count
    idx,           \* the position in commit_dates of setup()'s loop
    fs,            \* the names present in the launch directory
    cwd,           \* the working directory, relative to the launch directory
    readme,        \* what has been written to README.md, one write per element
    child,         \* the external command running, if any
    log,           \* the side effects so far, in order
    failed         \* whether some external command exited non-zero

vars == <<args, curr_date, directory, commit_dates, pc, n, cand, idx,
          fs, cwd, readme, child, log, failed>>

\* ------------------------------------------------------------------ bounds

\* The largest days_before the generator is run with.
MaxDaysBefore == 1

\* How many values at each end of a randint range the draws are taken from.
Edge == 2

\* The longest URL built from UrlAlphabet.
MaxUrlLen == 4

\* ------------------------------------------------------------------- text

None == <<>>

Some(s) == <<s>>

\* Python truthiness of an optional str: None and "" are false.
Truthy(o) == o # None /\ o[1] # <<>>

Min(a, b) == IF a < b THEN a ELSE b

Max(a, b) == IF a > b THEN a ELSE b

\* str.rfind(ch): the highest 0-based index of ch in s, or -1.
rfind(s, ch) ==
    LET hits == {i \in 1..Len(s) : s[i] = ch}
    IN  IF hits = {} THEN -1
        ELSE (CHOOSE i \in hits : \A j \in hits : j <= i) - 1

\* One bound of a Python slice: a negative index counts from the end, and
\* the result is clamped into 0..len.
SliceIndex(i, len) ==
    LET j == IF i < 0 THEN i + len ELSE i
    IN  Max(0, Min(j, len))

\* s[start:end] with 0-based Python indices.
Slice(s, start, end) ==
    LET a == SliceIndex(start, Len(s))
        b == SliceIndex(end, Len(s))
    IN  IF a < b THEN SubSeq(s, a + 1, b) ELSE <<>>

Digits == <<"0", "1", "2", "3", "4", "5", "6", "7", "8", "9">>

\* A non-negative number as decimal text, zero-padded to `width` places.
RECURSIVE Pad(_, _)
Pad(v, width) ==
    IF width <= 1 /\ v < 10 THEN <<Digits[v + 1]>>
    ELSE Pad(v \div 10, width - 1) \o <<Digits[(v % 10) + 1]>>

\* --------------------------------------------------------------- datetime

DaysBeforeMonth == <<0, 31, 59, 90, 120, 151, 181, 212, 243, 273, 304, 334>>

DaysInMonth == <<31, 28, 31, 30, 31, 30, 31, 31, 30, 31, 30, 31>>

\* The (year, month, day) of a proleptic Gregorian ordinal, as datetime
\* computes it.
ord2ymd(o) ==
    LET n0   == o - 1
        n400 == n0 \div 146097
        r400 == n0 % 146097
        n100 == r400 \div 36524
        r100 == r400 % 36524
        n4   == r100 \div 1461
        r4   == r100 % 1461
        n1   == r4 \div 365
        r1   == r4 % 365
        year == n400 * 400 + 1 + n100 * 100 + n4 * 4 + n1
        leap == n1 = 3 /\ (n4 # 24 \/ n100 = 3)
        m0   == (r1 + 50) \div 32
        p0   == DaysBeforeMonth[m0] + (IF m0 > 2 /\ leap THEN 1 ELSE 0)
        month  == IF p0 > r1 THEN m0 - 1 ELSE m0
        before == IF p0 > r1
                  THEN p0 - (DaysInMonth[month]
                             + (IF month = 2 /\ leap THEN 1 ELSE 0))
                  ELSE p0
    IN  IF n1 = 4 \/ n100 = 4
        THEN [year |-> year - 1, month |-> 12, day |-> 31]
        ELSE [year |-> year, month |-> month, day |-> r1 - before + 1]

\* datetime.weekday(): Monday is 0, Sunday is 6.
weekday(dt) == (dt.ord + 6) % 7

\* Mutant: the replacement also zeroes the seconds and microseconds.
replace_zeroing_seconds(dt, h, m) ==
    [dt EXCEPT !.hour = h, !.minute = m, !.second = 0, !.microsecond = 0]

\* datetime.replace(hour=h, minute=m): the other fields are kept.
replace_hour_minute(dt, h, m) == [dt EXCEPT !.hour = h, !.minute = m]

\* dt + timedelta(days): the clock fields are kept.
plus_days(dt, d) == [dt EXCEPT !.ord = dt.ord + d]

\* dt + timedelta(minutes=m): minutes carry into hours and days.
plus_minutes(dt, m) ==
    LET total == dt.hour * 60 + dt.minute + m
    IN  [dt EXCEPT !.ord = dt.ord + (total \div 1440),
                   !.hour = (total % 1440) \div 60,
                   !.minute = total % 60]

\* strftime("%Y-%m-%d")
fmt_date(dt) ==
    LET d == ord2ymd(dt.ord)
    IN  Pad(d.year, 4) \o <<"-">> \o Pad(d.month, 2) \o <<"-">> \o Pad(d.day, 2)


\* strftime("%H-%M-%S") and strftime("%H:%M:%S"), by separator.
fmt_clock(dt, sep) ==
    Pad(dt.hour, 2) \o <<sep>> \o Pad(dt.minute, 2) \o <<sep>> \o Pad(dt.second, 2)

\* ------------------------------------------------------- program constants

\* replace(hour=20, minute=0)
AnchorHour == 20

AnchorMinute == 0

\* randint(0, 100) < frequency
DrawLow == 0

DrawHigh == 100

\* max(1, min(20, max_commits))
MinPerDay == 1

MaxPerDay == 20

\* day.weekday() < 5
FirstWeekendDay == 5

\* ----------------------------------------------------------------- inputs

\* 2024-12-27, a Friday: the runs start on one of the four days from it
\* (Friday to Monday), so windows cross a weekend and a year's end.
FirstToday == 739247

Todays == FirstToday .. FirstToday + 3

Clocks == {[hour |-> 0, minute |-> 0, second |-> 0, microsecond |-> 0],
           [hour |-> 23, minute |-> 59, second |-> 59, microsecond |-> 999999]}

Nows == {[ord |-> o, hour |-> c.hour, minute |-> c.minute,
          second |-> c.second, microsecond |-> c.microsecond] :
            o \in Todays, c \in Clocks}

\* random.randint(a, b): a value of a..b, drawn here from the Edge lowest
\* and the Edge highest values of the range.
randint(a, b) == {x \in a..b : x < a + Edge \/ x > b - Edge}

\* -------------------------------------------------------------- GitRepository

\* _determine_directory
determine_directory(a, now) ==
    IF Truthy(a.repository)
    THEN LET url   == a.repository[1]
             start == rfind(url, "/") + 1
             end   == rfind(url, ".")
         IN  Slice(url, start, end)
    ELSE <<"r", "e", "p", "o", "s", "i", "t", "o", "r", "y", "-">>
         \o fmt_date(now) \o <<"-">> \o fmt_clock(now, "-")

\* start_date of _generate_commit_dates
start_date(a, now) ==
    plus_days(replace_hour_minute(now, AnchorHour, AnchorMinute), -a.days_before)

\* Mutant: the candidate days are taken from the last to the first.
candidate_day_backwards(a, now, i) ==
    plus_days(start_date(a, now), (a.days_before + a.days_after) - 1 - i)

\* The n-th candidate day of the loop (n from 0).
candidate_day(a, now, i) == plus_days(start_date(a, now), i)

\* Mutant: the window takes in the day today + days_after.
window_length_inclusive(a) == Max(0, a.days_before + a.days_after + 1)

\* range(self.args.days_before + self.args.days_after)
window_length(a) == Max(0, a.days_before + a.days_after)

\* Mutant: Saturday passes for a weekday.
weekday_allowed_saturday(a, day) == ~a.no_weekends \/ weekday(day) <= FirstWeekendDay

\* not self.args.no_weekends or day.weekday() < 5
weekday_allowed(a, day) == ~a.no_weekends \/ weekday(day) < FirstWeekendDay

\* Mutant: a draw equal to frequency includes the day.
frequency_hit_inclusive(a, draw) == draw <= a.frequency

\* randint(0, 100) < self.args.frequency
frequency_hit(a, draw) == draw < a.frequency

\* Mutant: max_commits is not capped.
per_day_limit_uncapped(a) == Max(MinPerDay, a.max_commits)

\* The upper end of the draw of _contributions_per_day.
per_day_limit(a) == Max(MinPerDay, Min(MaxPerDay, a.max_commits))

\* _contributions_per_day: the values it can return.
contributions_per_day(a) == randint(1, per_day_limit(a))

\* day + timedelta(minutes=m) for m in range(k)
commit_times(day, k) == [m \in 1..k |-> plus_minutes(day, m - 1)]

\* __init__, line 20
DetermineDirectory ==
    /\ pc = "determine_directory"
    /\ directory' = determine_directory(args, curr_date)
    /\ pc' = "generate_commit_dates"
    /\ UNCHANGED <<args, curr_date, commit_dates, n, cand, idx,
                   fs, cwd, readme, child, log, failed>>

\* One iteration of the loop over the candidate days of
\* _generate_commit_dates.  cand records the iteration's day, its draw
\* from 0..100 when one was made, and the number of dates it appended.
GenerateDay ==
    /\ pc = "generate_commit_dates"
    /\ n < window_length(args)
    /\ LET day == candidate_day(args, curr_date, n)
       IN  \/ /\ ~weekday_allowed(args, day)
              /\ cand' = <<[day |-> day, drawn |-> FALSE, draw |-> 0, count |-> 0]>>
              /\ UNCHANGED commit_dates
           \/ /\ weekday_allowed(args, day)
              /\ \E draw \in randint(DrawLow, DrawHigh) :
                    \/ /\ ~frequency_hit(args, draw)
                       /\ cand' = <<[day |-> day, drawn |-> TRUE,
                                     draw |-> draw, count |-> 0]>>
                       /\ UNCHANGED commit_dates
                    \/ /\ frequency_hit(args, draw)
                       /\ \E c \in contributions_per_day(args) :
                          \E k \in randint(1, c) :
                             /\ commit_dates' = commit_dates \o commit_times(day, k)
                             /\ cand' = <<[day |-> day, drawn |-> TRUE,
                                           draw |-> draw, count |-> k]>>
    /\ n' = n + 1
    /\ UNCHANGED <<args, curr_date, directory, pc, idx,
                   fs, cwd, readme, child, log, failed>>

\* return commit_dates: the constructor is done.
GenerateReturn ==
    /\ pc = "generate_commit_dates"
    /\ n >= window_length(args)
    /\ pc' = "constructed"
    /\ cand' = <<>>
    /\ UNCHANGED <<args, curr_date, directory, commit_dates, n, idx,
                   fs, cwd, readme, child, log, failed>>

\* ------------------------------------------------ the schedule, on its own

DateArgs ==
    [no_weekends : BOOLEAN,
     max_commits : {0, 1, 3, 21},
     frequency   : {0, 100, 101},
     repository  : {None},
     user_name   : {None},
     user_email  : {None},
     days_before : -1 .. MaxDaysBefore,
     days_after  : {-1, 0, 1}]

InitCommon ==
    /\ directory = <<>>
    /\ commit_dates = <<>>
    /\ pc = "determine_directory"
    /\ n = 0
    /\ cand = <<>>
    /\ cwd = <<>>
    /\ readme = <<>>
    /\ child = <<>>
    /\ log = <<>>
    /\ idx = 0
    /\ failed = FALSE

InitDates ==
    /\ args \in DateArgs
    /\ curr_date \in Nows
    /\ fs = {}
    /\ InitCommon

NextDates == DetermineDirectory \/ GenerateDay \/ GenerateReturn

SpecDates == InitDates /\ [][NextDates]_vars

\* ------------------------------------------------------------------ setup

T_git == <<"g", "i", "t">>

T_main == <<"m", "a", "i", "n">>

T_origin == <<"o", "r", "i", "g", "i", "n">>

T_config == <<"c", "o", "n", "f", "i", "g">>

README == <<"R", "E", "A", "D", "M", "E", ".", "m", "d">>

\* _generate_commit_message: "Contribution: %Y-%m-%d %H:%M"
generate_commit_message(date) ==
    <<"C", "o", "n", "t", "r", "i", "b", "u", "t", "i", "o", "n", ":", " ">>
    \o fmt_date(date) \o <<" ">> \o Pad(date.hour, 2) \o <<":">> \o Pad(date.minute, 2)

\* date.strftime('"%Y-%m-%d %H:%M:%S"'): the quotes are part of the text.
commit_date_text(date) ==
    <<"\"">> \o fmt_date(date) \o <<" ">> \o fmt_clock(date, ":") \o <<"\"">>

\* The argument list _run_command is given at each control point.
argv(point, a, date) ==
    CASE point = "git_init" ->
           <<T_git, <<"i", "n", "i", "t">>, <<"-", "b">>, T_main>>
      [] point = "git_config_name" ->
           <<T_git, T_config,
             <<"u", "s", "e", "r", ".", "n", "a", "m", "e">>, a.user_name[1]>>
      [] point = "git_config_email" ->
           <<T_git, T_config,
             <<"u", "s", "e", "r", ".", "e", "m", "a", "i", "l">>, a.user_email[1]>>
      [] point = "git_add" ->
           <<T_git, <<"a", "d", "d">>, <<".">>>>
      [] point = "git_commit" ->
           <<T_git, <<"c", "o", "m", "m", "i", "t">>, <<"-", "m">>,
             generate_commit_message(date),
             <<"-", "-", "d", "a", "t", "e">>, commit_date_text(date)>>
      [] point = "git_remote" ->
           <<T_git, <<"r", "e", "m", "o", "t", "e">>, <<"a", "d", "d">>,
             T_origin, a.repository[1]>>
      [] point = "git_branch" ->
           <<T_git, <<"b", "r", "a", "n", "c", "h">>, <<"-", "M">>, T_main>>
      [] point = "git_push" ->
           <<T_git, <<"p", "u", "s", "h">>, <<"-", "u">>, T_origin, T_main>>

CommandPoints ==
    {"git_init", "git_config_name", "git_config_email", "git_add",
     "git_commit", "git_remote", "git_branch", "git_push"}

\* Mutant: the loop stops one date short.
loop_point_one_short(a, dates, i) ==
    IF i < Len(dates) THEN "contribute"
    ELSE IF Truthy(a.repository) THEN "git_remote" ELSE "notice"

\* setup(), lines 28-32: the loop takes the date at position i, or, the
\* schedule exhausted, goes on to the remote and the notice.
loop_point(a, dates, i) ==
    IF i <= Len(dates) THEN "contribute"
    ELSE IF Truthy(a.repository) THEN "git_remote" ELSE "notice"

\* The control point that follows the command of `point`.
continuation(point, a, dates, i) ==
    CASE point = "git_init" ->
           IF Truthy(a.user_name) THEN "git_config_name"
           ELSE IF Truthy(a.user_email) THEN "git_config_email"
           ELSE loop_point(a, dates, 1)
      [] point = "git_config_name" ->
           IF Truthy(a.user_email) THEN "git_config_email"
           ELSE loop_point(a, dates, 1)
      [] point = "git_config_email" -> loop_point(a, dates, 1)
      [] point = "git_add" -> "git_commit"
      [] point = "git_commit" -> loop_point(a, dates, i + 1)
      [] point = "git_remote" -> "git_branch"
      [] point = "git_branch" -> "git_push"
      [] point = "git_push" -> "notice"

\* The position of the loop once the command of `point` is over.
next_idx(point, i) ==
    CASE point \in {"git_init", "git_config_name", "git_config_email"} -> 1
      [] point = "git_commit" -> i + 1
      [] OTHER -> i

\* Mutant: a non-zero exit status stops the run.
after_wait_checked(point, rc, a, dates, i) ==
    IF rc # 0 THEN "error" ELSE continuation(point, a, dates, i)

\* Popen(commands).wait(), line 111: the exit status is dropped, and the
\* caller goes on wherever it was going.
after_wait(point, rc, a, dates, i) == continuation(point, a, dates, i)

\* Mutant: an existing directory is accepted.
mkdir_exist_ok(name, entries) == name # <<>>

\* Whether a name resolves to something in a directory holding `entries`:
\* "." and ".." exist in every directory, listed or not.
path_exists(name, entries) ==
    name \in entries \cup {<<".">>, <<".", ".">>}

\* os.mkdir(self.directory) succeeds when the name is not empty and nothing
\* of that name exists.
mkdir_succeeds(name, entries) == name # <<>> /\ ~path_exists(name, entries)

\* os.mkdir, line 50: the exception of a failed creation is not caught.
Mkdir ==
    /\ pc = "constructed"
    /\ IF mkdir_succeeds(directory, fs)
       THEN /\ fs' = fs \cup {directory}
            /\ log' = Append(log, [op |-> "mkdir", args |-> <<directory>>])
            /\ pc' = "chdir"
       ELSE /\ pc' = "error"
            /\ UNCHANGED <<fs, log>>
    /\ UNCHANGED <<args, curr_date, directory, commit_dates, n, cand, idx,
                   cwd, readme, child, failed>>

\* os.chdir, line 51
Chdir ==
    /\ pc = "chdir"
    /\ cwd' = cwd \o <<directory>>
    /\ log' = Append(log, [op |-> "chdir", args |-> <<directory>>])
    /\ pc' = "git_init"
    /\ UNCHANGED <<args, curr_date, directory, commit_dates, n, cand, idx,
                   fs, readme, child, failed>>

\* Popen(commands): the external command starts.
Popen ==
    /\ pc \in CommandPoints
    /\ child = <<>>
    /\ LET date == IF idx \in 1..Len(commit_dates)
                   THEN commit_dates[idx] ELSE curr_date
           cmd  == argv(pc, args, date)
       IN  /\ child' = <<cmd>>
           /\ log' = Append(log, [op |-> "popen", args |-> cmd])
    /\ UNCHANGED <<args, curr_date, directory, commit_dates, pc, n, cand, idx,
                   fs, cwd, readme, failed>>

\* .wait(): the command terminates with some exit status.
Wait ==
    /\ pc \in CommandPoints
    /\ child # <<>>
    /\ \E rc \in {0, 1} :
          /\ failed' = (failed \/ rc # 0)
          /\ pc' = after_wait(pc, rc, args, commit_dates, idx)
    /\ idx' = next_idx(pc, idx)
    /\ child' = <<>>
    /\ log' = Append(log, [op |-> "exit", args |-> <<>>])
    /\ UNCHANGED <<args, curr_date, directory, commit_dates, n, cand,
                   fs, cwd, readme>>

\* _contribute, lines 91-92: one write appended to README.md.
WriteReadme ==
    /\ pc = "contribute"
    /\ LET text == generate_commit_message(commit_dates[idx]) \o <<"\n", "\n">>
       IN  /\ readme' = Append(readme, text)
           /\ log' = Append(log, [op |-> "append", args |-> <<README, text>>])
    /\ pc' = "git_add"
    /\ UNCHANGED <<args, curr_date, directory, commit_dates, n, cand, idx,
                   fs, cwd, child, failed>>

\* print, line 32
Notice ==
    /\ pc = "notice"
    /\ log' = Append(log, [op |-> "print", args |-> <<>>])
    /\ pc' = "done"
    /\ UNCHANGED <<args, curr_date, directory, commit_dates, n, cand, idx,
                   fs, cwd, readme, child, failed>>

\* -------------------------------------------------------- the whole program

U_dotgit ==
    <<"h", "t", "t", "p", "s", ":", "/", "/", "e", "x", "a", "m", "p", "l", "e",
      ".", "c", "o", "m", "/", "f", "o", "o", "/",
      "b", "a", "r", "-", "p", "r", "o", "j", "e", "c", "t", ".", "g", "i", "t">>

U_plain ==
    <<"h", "t", "t", "p", "s", ":", "/", "/", "e", "x", "a", "m", "p", "l", "e",
      ".", "c", "o", "m", "/", "f", "o", "o", "/", "b", "a", "r">>

\* A URL whose derived directory name is ".".
U_dot == <<"/", ".", ".">>

\* A URL whose derived directory name is "..".
U_dotdot == <<"/", ".", ".", ".">>

U_ssh ==
    <<"g", "i", "t", "@", "g", "i", "t", "h", "u", "b", ".", "c", "o", "m", ":",
      "u", "s", "e", "r", "/", "r", "e", "p", "o">>

RunArgs ==
    [no_weekends : BOOLEAN,
     max_commits : {2},
     frequency   : {50},
     repository  : {None, Some(<<>>), Some(U_dotgit), Some(U_plain),
                    Some(U_dot), Some(U_dotdot)},
     user_name   : {None, Some(<<"n">>)},
     user_email  : {None, Some(<<"e">>)},
     days_before : {1},
     days_after  : {0, 1}]

\* A Saturday, one microsecond before midnight.
RunNow ==
    [ord |-> FirstToday + 1, hour |-> 23, minute |-> 59,
     second |-> 59, microsecond |-> 999999]

Init ==
    /\ args \in RunArgs
    /\ curr_date = RunNow
    /\ fs \in {{}, {determine_directory(args, curr_date)}}
    /\ InitCommon

Next ==
    \/ DetermineDirectory
    \/ GenerateDay
    \/ GenerateReturn
    \/ Mkdir
    \/ Chdir
    \/ Popen
    \/ Wait
    \/ WriteReadme
    \/ Notice

Spec == Init /\ [][Next]_vars

\* ------------------------------------------- the directory name, on its own

UrlAlphabet == {"a", "/", "."}

RECURSIVE Texts(_)
\* Every text over UrlAlphabet of length 1..len.
Texts(len) ==
    IF len = 0 THEN {}
    ELSE LET shorter == Texts(len - 1)
         IN  {<<c>> : c \in UrlAlphabet}
             \cup shorter
             \cup {Append(t, c) : t \in shorter, c \in UrlAlphabet}

Urls == Texts(MaxUrlLen) \cup {U_dotgit, U_plain, U_ssh}

InitDir ==
    /\ args \in [no_weekends : {FALSE}, max_commits : {10}, frequency : {80},
                 repository : {Some(u) : u \in Urls},
                 user_name : {None}, user_email : {None},
                 days_before : {365}, days_after : {0}]
    /\ curr_date = RunNow
    /\ fs = {}
    /\ InitCommon

SpecDir == InitDir /\ [][DetermineDirectory]_vars

\* ------------------------------------------------------------------ claims

\* The clock of a datetime in minutes since midnight.
MinuteOfDay(dt) == dt.hour * 60 + dt.minute

Indices == 1..Len(commit_dates)

\* The positions of the schedule whose calendar day is the ordinal o.
DatesOn(o) == {i \in Indices : commit_dates[i].ord = o}

\* C1: every Commit Date's calendar day is one of the days_before +
\* days_after consecutive days that start at today - days_before, so it is
\* before the day today + days_after, and its clock time is 20:00 of that
\* day or later.
C1_DatesInWindow ==
    \A i \in Indices :
        LET d == commit_dates[i]
            first == curr_date.ord - args.days_before
        IN  /\ d.ord >= first
            /\ d.ord < first + (args.days_before + args.days_after)
            /\ d.ord < curr_date.ord + args.days_after
            /\ MinuteOfDay(d) >= 20 * 60

\* A date on the last day of the window, at the largest minute offset.
C1_Witness ==
    /\ pc = "constructed"
    /\ \E i \in Indices :
          /\ commit_dates[i].ord = curr_date.ord + args.days_after - 1
          /\ MinuteOfDay(commit_dates[i]) = 20 * 60 + 19
          /\ args.days_after = 1

\* C2: with no_weekends set, no Commit Date falls on a Saturday or a Sunday
\* (weekday index 5 or 6), minute offsets included.
C2_NoWeekendDates ==
    args.no_weekends =>
        \A i \in Indices : weekday(commit_dates[i]) \notin {5, 6}

\* A weekend day was skipped after a Friday that got its twenty dates.
C2_Witness ==
    /\ args.no_weekends
    /\ cand # <<>>
    /\ ~cand[1].drawn
    /\ weekday(cand[1].day) = 5
    /\ Len(commit_dates) >= 20

\* C3: a candidate day that is not suppressed contributes at least one
\* Commit Date exactly when its draw from 0..100 is less than frequency; a
\* suppressed day contributes none.  So frequency 0 gives an empty schedule,
\* frequency >= 101 includes every such day, and frequency 100 excludes a day
\* exactly when its draw is 100.
C3_IncludedIffDrawBelowFrequency ==
    /\ cand # <<>> =>
          LET c == cand[1]
              got == Cardinality(DatesOn(c.day.ord))
          IN  /\ ~c.drawn => got = 0
              /\ c.drawn =>
                    /\ c.draw \in 0..100
                    /\ (got >= 1) <=> (c.draw < args.frequency)
                    /\ args.frequency >= 101 => got >= 1
                    /\ args.frequency = 100 => ((got = 0) <=> (c.draw = 100))
    /\ args.frequency = 0 => commit_dates = <<>>

\* With frequency 100, a day whose draw was 100 has been left out.
C3_Witness ==
    /\ cand # <<>>
    /\ cand[1].drawn
    /\ cand[1].draw = 100
    /\ args.frequency = 100
    /\ DatesOn(cand[1].day.ord) = {}
    /\ commit_dates # <<>>

\* C4: the number of Commit Dates of one included calendar day is at least
\* 1 and at most max(1, min(20, max_commits)), so never above 20 and exactly
\* 1 when max_commits <= 1; the dates of a day are its anchor plus the minute
\* offsets 0, 1, ..., k-1 without gaps.
C4_PerDayCount ==
    /\ \A i \in Indices :
          LET on == DatesOn(commit_dates[i].ord)
              k  == Cardinality(on)
              cap == IF args.max_commits < 1 THEN 1
                     ELSE IF args.max_commits > 20 THEN 20
                     ELSE args.max_commits
          IN  /\ k >= 1
              /\ k <= cap
              /\ k <= 20
              /\ args.max_commits <= 1 => k = 1
              /\ {MinuteOfDay(commit_dates[j]) - 20 * 60 : j \in on} = 0..(k - 1)
    /\ (cand # <<>> /\ cand[1].drawn /\ cand[1].draw < args.frequency)
          => DatesOn(cand[1].day.ord) # {}

\* A day with twenty dates under max_commits = 21.
C4_Witness ==
    /\ args.max_commits = 21
    /\ \E i \in Indices : Cardinality(DatesOn(commit_dates[i].ord)) = 20

\* The text after the last "/" of a URL.
FinalSegment(url) == SubSeq(url, rfind(url, "/") + 2, Len(url))

\* A segment without its trailing extension, if it has one.
Stem(seg) ==
    IF rfind(seg, ".") = -1 THEN seg ELSE SubSeq(seg, 1, rfind(seg, "."))

\* C5: with a remote URL configured, the directory is the URL's final path
\* segment with only a trailing extension removed, for every non-empty URL.
C5_DirectoryIsFinalSegment ==
    (pc # "determine_directory" /\ Truthy(args.repository))
        => directory = Stem(FinalSegment(args.repository[1]))

\* One external command: it starts, then it terminates.
Cmd(a) == <<[op |-> "popen", args |-> a], [op |-> "exit", args |-> <<>>]>>

RECURSIVE Contributions(_)
\* Per Commit Date: the append to README.md, git add, git commit.
Contributions(dates) ==
    IF dates = <<>> THEN <<>>
    ELSE <<[op |-> "append",
            args |-> <<README,
                       generate_commit_message(dates[1]) \o <<"\n", "\n">>>>]>>
         \o Cmd(argv("git_add", args, dates[1]))
         \o Cmd(argv("git_commit", args, dates[1]))
         \o Contributions(Tail(dates))

\* The side effects of a setup() whose directory creation succeeds.
SuccessRun ==
    <<[op |-> "mkdir", args |-> <<directory>>],
      [op |-> "chdir", args |-> <<directory>>]>>
    \o Cmd(argv("git_init", args, curr_date))
    \o (IF Truthy(args.user_name)
        THEN Cmd(argv("git_config_name", args, curr_date)) ELSE <<>>)
    \o (IF Truthy(args.user_email)
        THEN Cmd(argv("git_config_email", args, curr_date)) ELSE <<>>)
    \o Contributions(commit_dates)
    \o (IF Truthy(args.repository)
        THEN Cmd(argv("git_remote", args, curr_date))
             \o Cmd(argv("git_branch", args, curr_date))
             \o Cmd(argv("git_push", args, curr_date))
        ELSE <<>>)
    \o <<[op |-> "print", args |-> <<>>]>>

IsPrefix(s, t) == Len(s) <= Len(t) /\ SubSeq(t, 1, Len(s)) = s

\* The effects of the log that start a "git commit".
CommitsStarted ==
    {i \in 1..Len(log) :
        log[i].op = "popen" /\ log[i].args[2] = <<"c", "o", "m", "m", "i", "t">>}

\* C6: when the directory is created, the side effects of setup() are, in
\* order: mkdir, chdir, git init, git config user.name iff a name is given,
\* git config user.email iff an email is given, per Commit Date in schedule
\* order the append to README.md, git add and git commit with that date, the
\* three remote commands iff a URL is configured, and the success notice
\* last; each command starts after the previous one has terminated, and the
\* writes to README.md, the commits and the schedule are equally many.
C6_SetupSequence ==
    /\ log # <<>> => IsPrefix(log, SuccessRun)
    /\ pc = "done" =>
          /\ log = SuccessRun
          /\ Len(readme) = Len(commit_dates)
          /\ Cardinality(CommitsStarted) = Len(commit_dates)
          /\ child = <<>>

\* A finished run with name, email, remote and four commits.
C6_Witness ==
    /\ pc = "done"
    /\ Len(commit_dates) = 4
    /\ Truthy(args.user_name)
    /\ Truthy(args.user_email)
    /\ Truthy(args.repository)

\* C7: the exit status of an external command never changes what follows:
\* once a command has failed the run still does not stop in an error, issues
\* no effect other than those of the all-success run, repeats no command, and
\* ends only with the success notice.
C7_ExitStatusIgnored ==
    failed =>
        /\ pc # "error"
        /\ IsPrefix(log, SuccessRun)
        /\ (pc = "done") <=> (log = SuccessRun)
        /\ (pc # "done") => ENABLED Next

\* A run finished after a failure, commits and the push included.
C7_Witness ==
    /\ failed
    /\ pc = "done"
    /\ commit_dates # <<>>
    /\ Truthy(args.repository)

\* C8: if the Target Directory exists when setup() runs, the creation fails
\* and the run stops there in an error: the working directory is unchanged,
\* no command is started, nothing is written to README.md, no notice is
\* emitted, and nothing follows the error.
C8_ExistingDirectoryIsFatal ==
    [][/\ (pc = "constructed"
           /\ directory \in fs \cup {<<".">>, <<".", ".">>}) =>
             /\ pc' = "error"
             /\ UNCHANGED <<cwd, fs, readme, child, log, failed>>
             /\ log = <<>>
       /\ pc # "error"]_vars

\* The run ended in the error with the directory already there: a listed
\* entry of the launch directory, or the launch directory itself (".").
C8_Witness ==
    /\ pc = "error"
    /\ commit_dates # <<>>
    /\ log = <<>>
    /\ \/ directory # <<>> /\ directory \in fs
       \/ directory = <<".">> /\ fs = {}

\* C9, as the spec states it: every Commit Date has seconds and microseconds
\* zero, whatever the instant at which the run starts.
C9_SecondsZeroed ==
    \A i \in Indices :
        commit_dates[i].second = 0 /\ commit_dates[i].microsecond = 0

\* C9, amended: the anchor is today's date with hour 20 and minute 0 and the
\* seconds and microseconds of the instant at which the run starts; every
\* Commit Date has those seconds and microseconds and is its day's anchor
\* plus a whole number of minutes.
C9_SecondsKept ==
    /\ start_date(args, curr_date).hour = 20
    /\ start_date(args, curr_date).minute = 0
    /\ \A i \in Indices :
          /\ commit_dates[i].second = curr_date.second
          /\ commit_dates[i].microsecond = curr_date.microsecond
          /\ MinuteOfDay(commit_dates[i]) - 20 * 60 \in 0..19

\* A schedule of a run started at 23:59:59.999999.
C9_Witness ==
    /\ pc = "constructed"
    /\ curr_date.second = 59
    /\ curr_date.microsecond = 999999
    /\ Len(commit_dates) >= 2

\* Whether datetime a is earlier than datetime b.
Earlier(a, b) ==
    LET ka == <<a.ord, a.hour, a.minute, a.second, a.microsecond>>
        kb == <<b.ord, b.hour, b.minute, b.second, b.microsecond>>
    IN  \E p \in 1..5 : ka[p] < kb[p] /\ \A q \in 1..(p - 1) : ka[q] = kb[q]

\* C10: the schedule is strictly increasing in time, so it has no duplicate
\* timestamp.
C10_StrictlyIncreasing ==
    \A i \in Indices : i > 1 => Earlier(commit_dates[i - 1], commit_dates[i])

\* Two days of the schedule, the first with twenty dates.
C10_Witness ==
    /\ Len(commit_dates) >= 22
    /\ commit_dates[1].ord # commit_dates[Len(commit_dates)].ord

============================================================================
